---------------------------- MODULE Spec2Model ----------------------------
(***************************************************************************)
(* A model of the custom components of baronhoot/hass_components:          *)
(*   - lutron_hwqsx: the area/name parser and its two copies, the setup    *)
(*     of a config entry, the device registry entries it makes, and the    *)
(*     button and binary_sensor platforms;                                 *)
(*   - mcintosh: the telnet media player entity.                           *)
(* Python strings are modelled as sequences of one-character strings, so   *)
(* that startswith, slicing, split and int() are computed and not assumed. *)
(***************************************************************************)
EXTENDS Integers, Sequences, FiniteSets, TLC

VARIABLES
    device_name,    \* the device-name string handed to the parsers
    parsed,         \* per copy of the parser: the pair it returned, if called
    \* mcintosh.McIntoshDevice
    _name, _pwstate, _volume, _volume_max, _source_list, _muted,
    _mediasource, _mediainfo, _should_setup_sources,
    mc_pc,          \* where the running do_update stands ("idle": none runs)
    mc_rep,         \* what the receiver answered to the running/last do_update
    mc_last,        \* the last entity method that ended, and how it ended
    mc_platform,    \* setup_platform: where it stands, how its do_update
                    \* ended, whether it added the entity
    \* lutron_hwqsx: the bridge's dictionaries
    devices, buttons, occupancy_groups,
    \* the host: device registry, entities added, states written, hass.data
    dev_reg, button_entities, led_entities, occupancy_sensors, ha_state,
    subscribed, hass_data,
    bridge,         \* the Smartbridge of the latest setup
    setup_calls,    \* calls of async_setup_entry
    connect_calls,  \* calls of bridge.connect()
    lut_pc,         \* "not_loaded", "forwarding" (platform setups run), "loaded"
    lut_ret,        \* how the latest async_setup_entry ended
    lut_env,        \* what create_tls and connect did in the latest setup
    platforms,      \* how each platform's async_setup_entry ended
    entry_unique_id,\* config_entry.unique_id (None until it is set)
    ent_reg,        \* the unique ids of the entry's entities in the entity registry
    migrations,     \* the bridge unique id of each run of the migration
    unloads,        \* what each async_unload_entry was told and returned
    setup_order,    \* the steps the last async_setup_entry took after connecting
    callbacks,      \* the last button status callback this bridge made, and how it ended
    bus             \* the lutron_caseta_button_event events that callback fired

parseVars == <<device_name, parsed>>

mcFields == <<_name, _pwstate, _volume, _volume_max, _source_list, _muted,
              _mediasource, _mediainfo, _should_setup_sources>>

mcVars == <<_name, _pwstate, _volume, _volume_max, _source_list, _muted,
            _mediasource, _mediainfo, _should_setup_sources,
            mc_pc, mc_rep, mc_last, mc_platform>>

lutVars == <<devices, buttons, occupancy_groups, dev_reg, button_entities,
             led_entities, occupancy_sensors, ha_state, subscribed, hass_data,
             bridge, setup_calls, connect_calls, lut_pc, lut_ret, lut_env,
             platforms, entry_unique_id, ent_reg, migrations, unloads, setup_order,
          callbacks, bus>>

regVars == <<entry_unique_id, ent_reg, migrations, setup_order>>
hostVars == <<unloads, callbacks, bus>>

vars == <<device_name, parsed,
          _name, _pwstate, _volume, _volume_max, _source_list, _muted,
          _mediasource, _mediainfo, _should_setup_sources,
          mc_pc, mc_rep, mc_last, mc_platform,
          devices, buttons, occupancy_groups, dev_reg, button_entities,
          led_entities, occupancy_sensors, ha_state, subscribed, hass_data,
          bridge, setup_calls, connect_calls, lut_pc, lut_ret, lut_env,
          platforms, entry_unique_id, ent_reg, migrations, unloads, setup_order,
          callbacks, bus>>

---------------------------------------------------------------------------
(* Python string helpers *)

\* str.startswith(prefix)
StartsWith(s, prefix) ==
    /\ Len(s) >= Len(prefix)
    /\ SubSeq(s, 1, Len(prefix)) = prefix

\* "c" in s, for a one-character c
Contains(s, c) == \E i \in 1..Len(s) : s[i] = c

\* s.index(c): the first position of c (1-based); only used when c is in s
FirstIndex(s, c) ==
    CHOOSE i \in 1..Len(s) : s[i] = c /\ \A j \in 1..(i - 1) : s[j] # c

\* s[a:b] of Python, 0-based and half-open, clipped to the string
Slice(s, a, b) ==
    LET hi == IF b < Len(s) THEN b ELSE Len(s)
    IN  IF a >= hi THEN <<>> ELSE SubSeq(s, a + 1, hi)

\* s[a:]
SliceFrom(s, a) == Slice(s, a, Len(s))

\* Python's None, and a bool where the code passes one in place of a string:
\* one-element tuples of a longer word, so that no character string equals them
PyNone == <<"None">>
PyBool(b) == IF b THEN <<"True">> ELSE <<"False">>

\* str(v) as an f-string renders it, for a string or None
PyStr(v) == IF v = PyNone THEN <<"N","o","n","e">> ELSE v

\* s.split(c): the fields of s between the occurrences of c
RECURSIVE PySplit(_, _)
PySplit(s, c) ==
    IF ~\E i \in 1..Len(s) : s[i] = c THEN <<s>>
    ELSE LET i == CHOOSE k \in 1..Len(s) : s[k] = c /\ \A j \in 1..(k - 1) : s[j] # c
         IN  <<SubSeq(s, 1, i - 1)>> \o PySplit(SubSeq(s, i + 1, Len(s)), c)

\* all strings over alphabet A of length at most n
StringsUpTo(A, n) == UNION {[1..k -> A] : k \in 0..n}

---------------------------------------------------------------------------
(* lutron_hwqsx: the area/name parser *)

UNASSIGNED_AREA == <<"U","n","a","s","s","i","g","n","e","d">>

\* s.split("_", 1) for a string that contains "_": [head, tail]
SplitFirst(s) ==
    LET i == FirstIndex(s, "_")
    IN  [area |-> SubSeq(s, 1, i - 1), name |-> SubSeq(s, i + 1, Len(s))]

\* a parser that splits at the last underscore
Mutant_area_and_name_rsplit(dn) ==
    IF Contains(dn, "_")
    THEN LET i == CHOOSE k \in 1..Len(dn) :
                      dn[k] = "_" /\ \A j \in (k + 1)..Len(dn) : dn[j] # "_"
         IN  [area |-> SubSeq(dn, 1, i - 1), name |-> SubSeq(dn, i + 1, Len(dn))]
    ELSE [area |-> UNASSIGNED_AREA, name |-> dn]

\* __init__._area_and_name_from_name
Init_area_and_name_from_name(dn) ==
    IF Contains(dn, "_") THEN SplitFirst(dn)
    ELSE [area |-> UNASSIGNED_AREA, name |-> dn]

\* binary_sensor._button_area_and_name_from_name
BinarySensor_button_area_and_name_from_name(dn) ==
    IF Contains(dn, "_") THEN SplitFirst(dn)
    ELSE [area |-> UNASSIGNED_AREA, name |-> dn]

\* a copy that falls back to an empty area
Mutant_button_area_and_name_noarea(dn) ==
    IF Contains(dn, "_") THEN SplitFirst(dn)
    ELSE [area |-> <<>>, name |-> dn]

\* button._area_and_name_from_name
Button_area_and_name_from_name(dn) ==
    IF Contains(dn, "_") THEN SplitFirst(dn)
    ELSE [area |-> UNASSIGNED_AREA, name |-> dn]

MaxNameLen == 4
NameAlphabet == {"a", "b", "_"}
ParserCopies == {"init", "binary_sensor", "button"}
NotCalled == [called |-> FALSE, area |-> <<>>, name |-> <<>>]
Returned(pair) == [called |-> TRUE, area |-> pair.area, name |-> pair.name]

ParseIdle ==
    /\ device_name = <<>>
    /\ parsed = [c \in ParserCopies |-> NotCalled]

---------------------------------------------------------------------------
(* lutron_hwqsx: the bridge's dictionaries, the device registry, setup *)

\* a dictionary value: a missing key, None, a str or an int.  Ids and serials
\* are numbers in either type, and "12" is not 12: the tag tells them apart
Absent == [k |-> "absent", v |-> 0]
NoneV == [k |-> "none", v |-> 0]
Str(n) == [k |-> "str", v |-> n]
IntV(n) == [k |-> "int", v |-> n]
\* int(s) for a str of digits
IntOfStr(val) == [k |-> "int", v |-> val.v]

QSX_KEYPADS ==
    {"SeeTouchHybridKeypad", "HomeownerKeypad", "SeeTouchTabletopKeypad",
     "Pico3ButtonRaiseLower"}

SEETOUCH_BUTTON_NAME_LOWER == <<"B","u","t","t","o","n"," ","1","8">>
SEETOUCH_BUTTON_NAME_RAISE == <<"B","u","t","t","o","n"," ","1","9">>
OCCUPANCY_GROUP_OCCUPIED == "Occupied"

\* the button-group ids the bridge may use
ButtonGroups == {1, 2}

\* bridge.devices: the bridge itself (BRIDGE_DEVICE_ID), two control
\* stations and the LED of a keypad button; a station lists its button
\* groups under "button_groups" (has_groups: the key is there and iterable)
BridgeDevice ==
    [device_id |-> Str(1), serial |-> IntV(1000), type |-> "SmartBridge",
     name |-> <<"B","r","i","d","g","e">>,
     control_station_name |-> <<>>, has_groups |-> FALSE, button_groups |-> <<>>]
Station(id, csname, has, groups) ==
    [device_id |-> Str(id), serial |-> NoneV, type |-> "SeeTouchHybridKeypad",
     name |-> csname, control_station_name |-> csname,
     has_groups |-> has, button_groups |-> groups]
LedDevice ==
    [device_id |-> Str(30), serial |-> NoneV, type |-> "KeypadLED",
     name |-> <<"H","_","L">>,
     control_station_name |-> <<>>, has_groups |-> FALSE, button_groups |-> <<>>]

StationA(has, groups) == Station(10, <<"H","_","K">>, has, groups)
StationB(has, groups) == Station(20, <<"B">>, has, groups)

\* the ways the two stations may list the button groups: each group under
\* one station, group 2 under none, group 2 under both, station A without
\* the key
PlainLayout ==
    <<BridgeDevice, StationA(TRUE, <<1>>), StationB(TRUE, <<2>>), LedDevice>>
DeviceLayouts ==
    { PlainLayout,
      <<BridgeDevice, StationA(TRUE, <<1>>), StationB(TRUE, <<>>), LedDevice>>,
      <<BridgeDevice, StationA(TRUE, <<1, 2>>), StationB(TRUE, <<2>>), LedDevice>>,
      <<BridgeDevice, StationA(FALSE, <<>>), StationB(TRUE, <<2>>), LedDevice>> }

\* bridge.buttons: a keypad button belongs to a button group, has an LED and
\* comes without a "serial" key or with serial None (as the processors
\* report it); a Pico button carries the remote's serial number and may or
\* may not name a button group
KeypadButton(g, s, bn) ==
    [type |-> "SeeTouchHybridKeypad", button_group |-> Str(g), serial |-> s,
     name |-> <<"H","_","K">>, button_name |-> bn, button_led |-> Str(30)]
KeypadButtons ==
    { KeypadButton(g, s, <<"O","n">>) : g \in ButtonGroups, s \in {Absent, NoneV} }
      \cup { KeypadButton(1, Absent, SEETOUCH_BUTTON_NAME_LOWER) }
PicoButtons ==
    { [type |-> "Pico2Button", button_group |-> g, serial |-> IntV(7),
       name |-> <<"P">>, button_name |-> <<"O","n">>, button_led |-> NoneV] :
         g \in {Absent, Str(2)} }
ButtonRecords == KeypadButtons \cup PicoButtons

\* button i of bridge.buttons has device_id str(100 + i)
ButtonId(i) == Str(100 + i)

MaxButtons == 2
MaxSetups == 2

\* an occupancy group: with or without a "serial" key
OccupancyStatuses == {"Occupied", "Unoccupied", "Unknown"}
OccupancyGroup(hs) == [has_serial |-> hs, status |-> "Unknown", name |-> <<"H","_","O">>]
\* bridge.occupancy_groups: no group, one group, two groups, a group whose
\* name has no area
OccupancyGroupDicts ==
    { <<>>, <<OccupancyGroup(TRUE)>>, <<OccupancyGroup(FALSE)>>,
      <<OccupancyGroup(TRUE), OccupancyGroup(FALSE)>>,
      <<[OccupancyGroup(TRUE) EXCEPT !.name = <<"O">>]>> }

SeqsUpTo(S, n) == UNION {[1..k -> S] : k \in 0..n}

(* the three copies of the button-group map: the first device, in the order
   of the dictionary, that lists the group *)
FirstLister(devs, g) ==
    CHOOSE i \in 1..Len(devs) :
        /\ devs[i].has_groups
        /\ \E p \in 1..Len(devs[i].button_groups) : devs[i].button_groups[p] = g
        /\ \A j \in 1..(i - 1) :
              ~(devs[j].has_groups /\
                \E p \in 1..Len(devs[j].button_groups) : devs[j].button_groups[p] = g)

ListedGroups(devs) ==
    {g \in ButtonGroups :
        \E i \in 1..Len(devs) :
            /\ devs[i].has_groups
            /\ \E p \in 1..Len(devs[i].button_groups) : devs[i].button_groups[p] = g}

\* __init__.async_setup_entry, lines 191-196
Init_button_group_to_device_map(devs) ==
    [g \in ListedGroups(devs) |-> devs[FirstLister(devs, g)]]

\* button.async_setup_entry, lines 54-59
Button_button_group_to_device_map(devs) ==
    [g \in ListedGroups(devs) |-> devs[FirstLister(devs, g)]]

\* binary_sensor.async_setup_entry, lines 68-73
BinarySensor_button_group_to_device_map(devs) ==
    [g \in ListedGroups(devs) |-> devs[FirstLister(devs, g)]]

(* the host's device registry: a set of entries, one per identifier *)
NoVia == [k |-> "novia", v |-> 0]
NoArea == <<"<no area>">>

\* device_registry.async_get_or_create: an entry with this identifier is
\* updated (the name, and via_device when one is given), else it is created
GetOrCreate(reg, id, name, via, area) ==
    IF \E d \in reg : d.id = id
    THEN {IF d.id = id
          THEN [d EXCEPT !.name = name,
                         !.via = IF via = NoVia THEN d.via ELSE via]
          ELSE d : d \in reg}
    ELSE reg \cup {[id |-> id, name |-> name, via |-> via, area |-> area]}

\* the display name f"{area} {name}"
DisplayName(pair) == pair.area \o <<" ">> \o pair.name
\* a suggested_area argument that is passed for every area
Mutant_SuggestedArea_always(pair) == pair.area

\* the suggested_area argument: left out for the "Unassigned" area
SuggestedArea(pair) == IF pair.area # UNASSIGNED_AREA THEN pair.area ELSE NoArea

\* LutronCasetaDevice.__init__: nothing more is set for a device without a
\* "serial" key; else the display name and the device info (its identifiers
\* are left out)
LutronCasetaDevice(device, bridge_device) ==
    IF ~device.has_serial
    THEN [has_info |-> FALSE, display_name |-> <<>>,
          device_info |-> [name |-> <<>>, via |-> NoVia, area |-> NoArea]]
    ELSE LET pair == Init_area_and_name_from_name(device.name)
         IN  [has_info |-> TRUE, display_name |-> DisplayName(pair),
              device_info |-> [name |-> DisplayName(pair),
                               via |-> bridge_device.serial,
                               area |-> SuggestedArea(pair)]]

\* _async_register_bridge_device
RegisterBridgeDevice(reg, bridge_device) ==
    GetOrCreate(reg, bridge_device.serial, bridge_device.name, NoVia, NoArea)

\* _async_register_button_devices, line 248-249: the serial a button ends with
SerialFor(device) ==
    IF device.serial = Absent /\ device.button_group # Absent
    THEN IntOfStr(device.button_group)
    ELSE device.serial

\* _async_register_button_devices, lines 256-262: the id the device is
\* registered under (only used when the lookups succeed)
RegistrationDeviceId(device, map) ==
    IF device.type \in QSX_KEYPADS
    THEN map[device.button_group.v].device_id
    ELSE SerialFor(device)

\* lines 251 and 256-259 raise KeyError: no serial and no button group, or a
\* keypad button whose group no device lists
RegistrationRaises(device, map) ==
    \/ SerialFor(device) = Absent
    \/ /\ device.type \in QSX_KEYPADS
       /\ \/ device.button_group = Absent
          \/ device.button_group.v \notin DOMAIN map

\* _async_register_button_devices: the loop from button i on.  st is
\* [reg, btns, seen, raised]; btns are the button dictionaries, which line
\* 249 changes in place
RECURSIVE RegisterButtonsFrom(_, _, _, _)
RegisterButtonsFrom(st, i, map, bridge_device) ==
    IF i > Len(st.btns) \/ st.raised THEN st
    ELSE
        LET device == [st.btns[i] EXCEPT !.serial = SerialFor(st.btns[i])]
            btns == [st.btns EXCEPT ![i] = device]
        IN  IF device.serial = Absent
            THEN [st EXCEPT !.raised = TRUE]
            ELSE IF device.serial \in st.seen
            THEN RegisterButtonsFrom([st EXCEPT !.btns = btns], i + 1, map, bridge_device)
            ELSE IF RegistrationRaises(device, map)
            THEN [st EXCEPT !.btns = btns, !.seen = st.seen \cup {device.serial},
                            !.raised = TRUE]
            ELSE
                LET pair == Init_area_and_name_from_name(device.name)
                    reg == GetOrCreate(st.reg, RegistrationDeviceId(device, map),
                                       DisplayName(pair), bridge_device.serial,
                                       SuggestedArea(pair))
                IN  RegisterButtonsFrom(
                        [reg |-> reg, btns |-> btns,
                         seen |-> st.seen \cup {device.serial}, raised |-> FALSE],
                        i + 1, map, bridge_device)

_async_register_button_devices(reg, btns, map, bridge_device) ==
    RegisterButtonsFrom([reg |-> reg, btns |-> btns, seen |-> {}, raised |-> FALSE],
                        1, map, bridge_device)

\* sub in s, for strings
HasSubstring(s, sub) ==
    \E a \in 0..(Len(s) - Len(sub)) : SubSeq(s, a + 1, a + Len(sub)) = sub

SEETOUCH_BUTTON_NAME_DEFAULT_PATTERN == <<"B","u","t","t","o","n"," ">>

\* the device info both keypad entities build from the parent device
ParentDeviceInfo(pair, parent_device) ==
    [id |-> parent_device.device_id, name |-> DisplayName(pair),
     area |-> SuggestedArea(pair)]

\* button.LutronCasetaButton.__init__
LutronCasetaButton(device_id, device, parent_device) ==
    LET lowered == IF device.button_name = SEETOUCH_BUTTON_NAME_LOWER
                   THEN <<"L","o","w","e","r">>
                   ELSE IF device.button_name = SEETOUCH_BUTTON_NAME_RAISE
                   THEN <<"R","a","i","s","e">>
                   ELSE device.button_name
        area == Button_area_and_name_from_name(device.name).area
    IN  [device_id |-> device_id,
         display_name |-> area \o <<" ">> \o lowered,
         enabled_default |-> ~HasSubstring(lowered, SEETOUCH_BUTTON_NAME_DEFAULT_PATTERN),
         device_info |-> ParentDeviceInfo(
                            Button_area_and_name_from_name(parent_device.control_station_name),
                            parent_device)]

\* binary_sensor.LutronCasetaButtonLED.__init__
LutronCasetaButtonLED(led_device, button_device, parent_device) ==
    LET area == BinarySensor_button_area_and_name_from_name(button_device.name).area
    IN  [device_id |-> led_device.device_id,
         display_name |-> area \o <<" ">> \o button_device.button_name
                               \o <<" ","L","E","D">>,
         enabled_default |-> ~HasSubstring(button_device.button_name,
                                           SEETOUCH_BUTTON_NAME_DEFAULT_PATTERN),
         device_info |-> ParentDeviceInfo(
                            BinarySensor_button_area_and_name_from_name(
                                parent_device.control_station_name),
                            parent_device)]

\* the host, adding entities: each entity's device info goes to the registry
RECURSIVE AddEntityDevices(_, _)
AddEntityDevices(reg, entities) ==
    IF entities = <<>> THEN reg
    ELSE AddEntityDevices(
            GetOrCreate(reg, Head(entities).device_info.id,
                        Head(entities).device_info.name, NoVia,
                        Head(entities).device_info.area),
            Tail(entities))

\* button.async_setup_entry, lines 61-70: the entities built from button i
\* on; line 69 raises KeyError for a button group no device lists
RECURSIVE ButtonEntitiesFrom(_, _, _, _)
ButtonEntitiesFrom(st, i, btns, map) ==
    IF i > Len(btns) \/ st.raised THEN st
    ELSE IF btns[i].button_group = Absent
    THEN ButtonEntitiesFrom(st, i + 1, btns, map)
    ELSE IF btns[i].button_group.v \notin DOMAIN map
    THEN [st EXCEPT !.raised = TRUE]
    ELSE ButtonEntitiesFrom(
            [st EXCEPT !.entities =
                Append(st.entities,
                       LutronCasetaButton(ButtonId(i), btns[i],
                                          map[btns[i].button_group.v]))],
            i + 1, btns, map)

\* the device with this device_id in bridge.devices (devices[device_id])
DeviceById(devs, id) == devs[CHOOSE i \in 1..Len(devs) : devs[i].device_id = id]

\* binary_sensor.async_setup_entry, lines 75-92: the LED entities
RECURSIVE LedEntitiesFrom(_, _, _, _, _)
LedEntitiesFrom(st, i, btns, devs, map) ==
    IF i > Len(btns) \/ st.raised THEN st
    ELSE IF btns[i].button_led \in {Absent, NoneV}
    THEN LedEntitiesFrom(st, i + 1, btns, devs, map)
    ELSE IF ~\E d \in 1..Len(devs) : devs[d].device_id = btns[i].button_led
    THEN [st EXCEPT !.raised = TRUE]
    ELSE IF btns[i].button_name \in {SEETOUCH_BUTTON_NAME_LOWER, SEETOUCH_BUTTON_NAME_RAISE}
    THEN LedEntitiesFrom(st, i + 1, btns, devs, map)
    ELSE IF btns[i].button_group = Absent \/ btns[i].button_group.v \notin DOMAIN map
    THEN [st EXCEPT !.raised = TRUE]
    ELSE LedEntitiesFrom(
            [st EXCEPT !.entities =
                Append(st.entities,
                       LutronCasetaButtonLED(DeviceById(devs, btns[i].button_led),
                                             btns[i], map[btns[i].button_group.v]))],
            i + 1, btns, devs, map)

\* LutronCasetaDevice.__init__ returns at line 401 for a device without a
\* "serial" key, before _bridge_unique_id and display_name are set; then
\* LutronOccupancySensor.__init__, line 109, reads unique_id, which reads
\* _bridge_unique_id: AttributeError
OccupancySensorRaises(group) == ~group.has_serial

\* LutronOccupancySensor.is_on
is_on(group) == group.status = OCCUPANCY_GROUP_OCCUPIED

---------------------------------------------------------------------------
(* lutron_hwqsx: the migration of the occupancy sensors' unique ids *)

\* an identifier or unique id that is a text
Text(chars) == [k |-> "text", t |-> chars]

OccupancyPrefix == <<"o","c","c","u","p","a","n","c","y","g","r","o","u","p","_">>

HexDigits == <<"0","1","2","3","4","5","6","7","8","9","a","b","c","d","e","f">>
RECURSIVE Hex(_)
Hex(n) == IF n < 16 THEN <<HexDigits[n + 1]>>
          ELSE Hex(n \div 16) \o <<HexDigits[(n % 16) + 1]>>

\* util.serial_to_unique_id: the serial in hexadecimal, padded to eight digits
serial_to_unique_id(serial) ==
    LET h == Hex(serial.v)
    IN  [i \in 1..(8 - Len(h)) |-> "0"] \o h

\* occupancy group g of bridge.occupancy_groups has occupancy_group_id str(g)
OccupancyGroupId(g) == <<HexDigits[g + 1]>>

\* LutronOccupancySensor.unique_id
LutronOccupancySensor_unique_id(bridge_device, g) ==
    OccupancyPrefix \o serial_to_unique_id(bridge_device.serial)
                    \o <<"_">> \o OccupancyGroupId(g)

\* a migrator that does not leave the migrated unique ids alone
Mutant_async_migrator_no_migrated_check(unique_id, bridge_unique_id) ==
    IF unique_id = <<>> THEN PyNone
    ELSE IF ~StartsWith(unique_id, OccupancyPrefix)
    THEN PyNone
    ELSE OccupancyPrefix \o PyStr(bridge_unique_id) \o <<"_">>
                         \o PySplit(unique_id, "_")[2]

\* _async_migrate_unique_ids._async_migrator: the new unique id of an entity,
\* or None when the entity is left alone
_async_migrator(unique_id, bridge_unique_id) ==
    IF unique_id = <<>> THEN PyNone
    ELSE IF \/ ~StartsWith(unique_id, OccupancyPrefix)
            \/ StartsWith(unique_id, OccupancyPrefix \o PyStr(bridge_unique_id))
    THEN PyNone
    ELSE OccupancyPrefix \o PyStr(bridge_unique_id) \o <<"_">>
                         \o PySplit(unique_id, "_")[2]

\* dev_reg.async_update_device(new_identifiers=...), for the device that has
\* the old unique id as its identifier, if there is one
UpdateDeviceIdentifier(reg, old, new) ==
    {IF d.id = Text(old) THEN [d EXCEPT !.id = Text(new)] ELSE d : d \in reg}

\* er.async_migrate_entries with _async_migrator, from entity i on; st is
\* [ent, dev]: the entry's entities' unique ids and the device registry
RECURSIVE MigrateFrom(_, _, _)
MigrateFrom(st, i, bridge_unique_id) ==
    IF i > Len(st.ent) THEN st
    ELSE LET new == _async_migrator(st.ent[i], bridge_unique_id)
         IN  IF new = PyNone
             THEN MigrateFrom(st, i + 1, bridge_unique_id)
             ELSE MigrateFrom([ent |-> [st.ent EXCEPT ![i] = new],
                               dev |-> UpdateDeviceIdentifier(st.dev, st.ent[i], new)],
                              i + 1, bridge_unique_id)

\* _async_migrate_unique_ids
_async_migrate_unique_ids(ent, dev, bridge_unique_id) ==
    MigrateFrom([ent |-> ent, dev |-> dev], 1, bridge_unique_id)

\* what an installation that ran an earlier version left in the registries:
\* an occupancy sensor with the old unique id and its device, next to a
\* button entity; the same already migrated; an old sensor with no device
OldOccupancyId == OccupancyPrefix \o OccupancyGroupId(1)
OccupancyDevice(uid) ==
    [id |-> Text(uid), name |-> <<"O">>, via |-> BridgeDevice.serial, area |-> NoArea]
LegacyRegistries ==
    { [ent |-> <<OldOccupancyId, <<"1","0","1">> >>,
       dev |-> {OccupancyDevice(OldOccupancyId)}],
      [ent |-> <<LutronOccupancySensor_unique_id(BridgeDevice, 1)>>,
       dev |-> {OccupancyDevice(LutronOccupancySensor_unique_id(BridgeDevice, 1))}],
      [ent |-> <<OldOccupancyId>>, dev |-> {}] }

---------------------------------------------------------------------------
(* lutron_hwqsx: the button events *)

BUTTON_STATUS_PRESSED == "Press"
ButtonStatuses == {BUTTON_STATUS_PRESSED, "Release"}
ACTION_PRESSED == "pressed"
ACTION_RELEASED == "released"

\* _async_subscribe_pico_remote_events._async_button_event, for button i of
\* the button dictionary (an i beyond it: an id the dictionary does not
\* hold): the events it fires, or the exception it ends with.  The device
\* registry entry's id is written as the identifier the entry was found by;
\* the button numbers of the event are left out
_async_button_event(i, event_type, btns, map, reg) ==
    IF i \notin 1..Len(btns) THEN [outcome |-> "ignored", fired |-> <<>>]
    ELSE
        LET device == btns[i]
            action == IF event_type = BUTTON_STATUS_PRESSED
                      THEN ACTION_PRESSED ELSE ACTION_RELEASED
            keypad == device.type \in QSX_KEYPADS
        IN  IF \/ keypad /\ \/ device.button_group = Absent
                            \/ device.button_group.v \notin DOMAIN map
               \/ ~keypad /\ device.serial = Absent
            THEN [outcome |-> "KeyError", fired |-> <<>>]
            ELSE
                LET parent_device == map[device.button_group.v]
                    hass_device_id == IF keypad THEN parent_device.device_id
                                      ELSE device.serial
                    pair == Init_area_and_name_from_name(
                                IF keypad THEN parent_device.control_station_name
                                ELSE device.name)
                    button_name ==
                        IF ~keypad THEN <<"b","u","t","t","o","n","_">>
                        ELSE IF device.button_name = SEETOUCH_BUTTON_NAME_LOWER
                        THEN <<"L","o","w","e","r">>
                        ELSE IF device.button_name = SEETOUCH_BUTTON_NAME_RAISE
                        THEN <<"R","a","i","s","e">>
                        ELSE device.button_name
                IN  IF ~\E d \in reg : d.id = hass_device_id
                    THEN [outcome |-> "AttributeError", fired |-> <<>>]
                    ELSE [outcome |-> "fired",
                          fired |-> <<[serial |-> hass_device_id, action |-> action,
                                       button_name |-> button_name,
                                       device_name |-> pair.name,
                                       area_name |-> pair.area,
                                       device_id |-> hass_device_id]>>]

---------------------------------------------------------------------------
(* mcintosh: the telnet media player entity *)

DEFAULT_NAME == <<"D","E","F","A","U","L","T"," ","A","V","R">>

\* dictionaries keep their insertion order: a sequence of <<key, value>> pairs
NORMAL_INPUTS ==
    << <<<<"C","d">>, <<"C","D">>>>,
       <<<<"D","v","d">>, <<"D","V","D">>>>,
       <<<<"B","l","u","e"," ","r","a","y">>, <<"B","D">>>>,
       <<<<"T","V">>, <<"T","V">>>>,
       <<<<"S","a","t","e","l","l","i","t","e"," ","/"," ","C","a","b","l","e">>, <<"S","A","T","/","C","B","L">>>>,
       <<<<"G","a","m","e">>, <<"G","A","M","E">>>>,
       <<<<"G","a","m","e","2">>, <<"G","A","M","E","2">>>>,
       <<<<"V","i","d","e","o"," ","A","u","x">>, <<"V",".","A","U","X">>>>,
       <<<<"D","o","c","k">>, <<"D","O","C","K">>>> >>

MEDIA_MODES ==
    << <<<<"T","u","n","e","r">>, <<"T","U","N","E","R">>>>,
       <<<<"M","e","d","i","a"," ","s","e","r","v","e","r">>, <<"S","E","R","V","E","R">>>>,
       <<<<"I","p","o","d"," ","d","o","c","k">>, <<"I","P","O","D">>>>,
       <<<<"N","e","t","/","U","S","B">>, <<"N","E","T","/","U","S","B">>>>,
       <<<<"R","a","p","s","o","d","y">>, <<"R","H","A","P","S","O","D","Y">>>>,
       <<<<"N","a","p","s","t","e","r">>, <<"N","A","P","S","T","E","R">>>>,
       <<<<"P","a","n","d","o","r","a">>, <<"P","A","N","D","O","R","A">>>>,
       <<<<"L","a","s","t","F","M">>, <<"L","A","S","T","F","M">>>>,
       <<<<"F","l","i","c","k","r">>, <<"F","L","I","C","K","R">>>>,
       <<<<"F","a","v","o","r","i","t","e","s">>, <<"F","A","V","O","R","I","T","E","S">>>>,
       <<<<"I","n","t","e","r","n","e","t"," ","R","a","d","i","o">>, <<"I","R","A","D","I","O">>>>,
       <<<<"U","S","B","/","I","P","O","D">>, <<"U","S","B","/","I","P","O","D">>>> >>

\* dict.values()
DictValues(d) == {d[i][2] : i \in 1..Len(d)}
DictKeys(d) == {d[i][1] : i \in 1..Len(d)}

\* d[k] = v: an existing key keeps its place, a new one goes last
DictSet(d, k, v) ==
    IF \E i \in 1..Len(d) : d[i][1] = k
    THEN [i \in 1..Len(d) |-> IF d[i][1] = k THEN <<k, v>> ELSE d[i]]
    ELSE Append(d, <<k, v>>)

\* the sequence without its element at position i
RemoveAt(d, i) == SubSeq(d, 1, i - 1) \o SubSeq(d, i + 1, Len(d))

\* s.split(" ", 1): one or two pieces
SplitSpaceOnce(s) ==
    IF Contains(s, " ")
    THEN LET i == FirstIndex(s, " ")
         IN  <<SubSeq(s, 1, i - 1), SubSeq(s, i + 1, Len(s))>>
    ELSE <<s>>

Digits == <<"0","1","2","3","4","5","6","7","8","9">>
IsDigit(c) == \E d \in 1..10 : Digits[d] = c
DigitValue(c) == (CHOOSE d \in 1..10 : Digits[d] = c) - 1

\* int(s) for a non-empty string of decimal digits
RECURSIVE PyInt(_)
PyInt(s) ==
    IF Len(s) = 0 THEN 0
    ELSE 10 * PyInt(SubSeq(s, 1, Len(s) - 1)) + DigitValue(s[Len(s)])

\* round(p / 100 * m) of Python 3 for integers p, m >= 0: half rounds to even
PyRoundPercent(p, m) ==
    LET q == (p * m) \div 100
        r == (p * m) % 100
    IN  IF 2 * r > 100 THEN q + 1
        ELSE IF 2 * r < 100 THEN q
        ELSE IF q % 2 = 0 THEN q ELSE q + 1

\* telnet_request: `lines` is what the read loop collected before the 0.2 s
\* timeout; all_lines=True returns it, otherwise its first line or ""
telnet_request_all(lines) == lines
telnet_request(lines) == IF lines # <<>> THEN lines[1] ELSE <<>>

\* a get_telnet_response that always strips the command prefix
Mutant_get_telnet_response_strip(lines, cmd, is_prefixed, default) ==
    LET response == telnet_request(lines)
    IN  IF response # <<>> /\ StartsWith(response, cmd)
        THEN SliceFrom(response, Len(cmd))
        ELSE default

get_telnet_response(lines, cmd, is_prefixed, default) ==
    LET response == telnet_request(lines)
    IN  IF response # <<>> /\ StartsWith(response, cmd)
        THEN IF is_prefixed THEN SliceFrom(response, Len(cmd)) ELSE response
        ELSE default

\* handle_volume_response, one line: the new (volume, volume_max)
HandleVolumeLine(v, line) ==
    IF StartsWith(line, <<"M","V","M","A","X"," ">>)
    THEN [v EXCEPT !.volume_max = PyInt(Slice(line, 6, 8))]
    ELSE IF StartsWith(line, <<"M","V">>)
    THEN [v EXCEPT !.volume = PyInt(Slice(line, 2, 4))]
    ELSE v

RECURSIVE HandleVolumeLines(_, _)
HandleVolumeLines(v, response) ==
    IF response = <<>> THEN v
    ELSE HandleVolumeLines(HandleVolumeLine(v, Head(response)), Tail(response))

handle_volume_response(vol, vmax, response) ==
    HandleVolumeLines([volume |-> vol, volume_max |-> vmax], response)

\* the state property
State(pwstate) ==
    IF pwstate = <<"P","W","S","T","A","N","D","B","Y">> THEN "off"
    ELSE IF pwstate = <<"P","W","O","N">> THEN "on"
    ELSE "None"

\* the source property: the first pretty name whose source is the current one
Source(source_list, mediasource) ==
    IF \E i \in 1..Len(source_list) : source_list[i][2] = mediasource
    THEN source_list[CHOOSE i \in 1..Len(source_list) :
                        /\ source_list[i][2] = mediasource
                        /\ \A j \in 1..(i - 1) : source_list[j][2] # mediasource][1]
    ELSE PyNone

\* _setup_sources, lines 127-130: the network name, asked only for the default
SetupSourcesName(name, nsfrn_lines) ==
    LET nsfrn == SliceFrom(telnet_request(nsfrn_lines), 6)
    IN  IF nsfrn # <<>> THEN nsfrn ELSE name

\* _setup_sources, lines 135-144: one SSFUN line
SsfunLine(source_list, line) ==
    LET ssfun == SplitSpaceOnce(SliceFrom(line, 5))
        source == ssfun[1]
        configured_name ==
            IF Len(ssfun) = 2 /\ ssfun[2] # <<>> THEN ssfun[2] ELSE source
    IN  IF configured_name = <<"E","N","D">> THEN source_list
        ELSE DictSet(source_list, configured_name, source)

RECURSIVE SsfunLines(_, _)
SsfunLines(source_list, lines) ==
    IF lines = <<>> THEN source_list
    ELSE SsfunLines(SsfunLine(source_list, Head(lines)), Tail(lines))

\* _setup_sources, lines 150-155: one SSSOD line (each has a space in it)
SssodLine(source_list, line) ==
    LET parts == SplitSpaceOnce(SliceFrom(line, 5))
        source == parts[1]
        status == parts[2]
    IN  IF /\ status = <<"D","E","L">>
           /\ \E i \in 1..Len(source_list) : source_list[i][2] = source
        THEN RemoveAt(source_list,
                      CHOOSE i \in 1..Len(source_list) :
                          /\ source_list[i][2] = source
                          /\ \A j \in 1..(i - 1) : source_list[j][2] # source)
        ELSE source_list

RECURSIVE SssodLines(_, _)
SssodLines(source_list, lines) ==
    IF lines = <<>> THEN source_list
    ELSE SssodLines(SssodLine(source_list, Head(lines)), Tail(lines))

\* do_update, lines 218-234, for a source that is a media mode: the NSE lines
AnswerCodes ==
    << <<"N","S","E","0">>, <<"N","S","E","1","X">>, <<"N","S","E","2","X">>,
       <<"N","S","E","3","X">>, <<"N","S","E","4">>, <<"N","S","E","5">>,
       <<"N","S","E","6">>, <<"N","S","E","7">>, <<"N","S","E","8">> >>

RECURSIVE MediaInfoLines(_, _, _)
MediaInfoLines(info, lines, k) ==
    IF lines = <<>> THEN info
    ELSE MediaInfoLines(info \o SliceFrom(Head(lines), Len(AnswerCodes[k])) \o <<"\n">>,
                        Tail(lines), k + 1)

(* what the receiver may send back *)
PWON == <<"P","W","O","N">>
PWSTANDBY == <<"P","W","S","T","A","N","D","B","Y">>
PWReplies == {<<>>, <<PWON>>, <<PWSTANDBY>>}
MVReplies ==
    { <<>>,
      << <<"M","V","4","5">> >>,
      << <<"M","V","4","5","5">> >>,
      << <<"M","V","8","0">>, <<"M","V","M","A","X"," ","9","8">> >>,
      << <<"M","V","M","A","X"," ","6","0">>, <<"M","V","4","5">> >>,
      << <<"M","V","M","A","X"," ","6","0">> >> }
MUReplies == {<<>>, << <<"M","U","O","N">> >>, << <<"M","U","O","F","F">> >>}
SIReplies == {<<>>, << <<"S","I","C","D">> >>, << <<"S","I","T","U","N","E","R">> >>}
NSEReplies == {<<>>, << <<"N","S","E","0","J","a","z","z">> >>}
NSFRNReplies == {<<>>, << <<"N","S","F","R","N"," ","D","e","n">> >>}
SSFUNReplies ==
    { << <<"S","S","F","U","N","C","D"," ","D","i","s","c">>,
         <<"S","S","F","U","N","T","U","N","E","R">>,
         <<"S","S","F","U","N"," ","E","N","D">> >> }
SSSODReplies ==
    { <<>>,
      << <<"S","S","S","O","D","C","D"," ","D","E","L">>,
         <<"S","S","S","O","D","T","U","N","E","R"," ","U","S","E">>,
         <<"S","S","S","O","D"," ","E","N","D">> >> }
\* set_volume_level's argument, in percent (the host passes 0.0 .. 1.0)
VolumePercents == {25}
\* select_source's argument: a name of the built-in source list
SelectableSources == {<<"T","u","n","e","r">>}

NoReplies == [pw |-> <<>>, mv |-> <<>>, mu |-> <<>>, si |-> <<>>]
Ended(op, ret, open) == [op |-> op, ret |-> ret, open |-> open]

\* lutron_hwqsx: no config entry is set up
PlatformsPending == [button |-> "pending", binary_sensor |-> "pending"]
NoBridge == [created |-> FALSE, connected |-> FALSE, closed |-> FALSE]

LutronIdle ==
    /\ devices = <<BridgeDevice>>
    /\ buttons = <<>>
    /\ occupancy_groups = <<>>
    /\ dev_reg = {}
    /\ button_entities = <<>>
    /\ led_entities = <<>>
    /\ occupancy_sensors = {}
    /\ ha_state = <<>>
    /\ subscribed = {}
    /\ hass_data = FALSE
    /\ bridge = NoBridge
    /\ setup_calls = 0
    /\ connect_calls = 0
    /\ lut_pc = "not_loaded"
    /\ lut_ret = "none"
    /\ lut_env = [tls |-> "none", connect |-> "none"]
    /\ platforms = PlatformsPending
    /\ entry_unique_id = PyNone
    /\ ent_reg = <<>>
    /\ migrations = <<>>
    /\ unloads = <<>>
    /\ setup_order = <<>>
    /\ callbacks = <<>>
    /\ bus = <<>>

\* setup_platform, line 88: the entity is constructed, do_update not yet called
PlatformSetupBegins ==
    [pc |-> "setup", first |-> "none", added |-> FALSE, updates |-> 0]

\* setup_platform, line 90: it calls do_update
StartsUpdate(p) ==
    IF p.pc = "setup" THEN [p EXCEPT !.updates = @ + 1] ELSE p

\* an entity that adds itself whatever do_update returned
Mutant_setup_platform_always_adds(p, ret) ==
    IF p.pc = "setup"
    THEN [pc |-> IF ret = "raised" THEN "raised" ELSE "returned",
          first |-> ret, added |-> TRUE, updates |-> p.updates]
    ELSE p

\* setup_platform, lines 90-91, when its do_update ends with ret: the entity
\* is added if do_update returned True; an exception leaves setup_platform.
\* Later calls of do_update are the host's (update), not setup_platform's
setup_platform(p, ret) ==
    IF p.pc = "setup"
    THEN [pc |-> IF ret = "raised" THEN "raised" ELSE "returned",
          first |-> ret, added |-> (ret = "True"), updates |-> p.updates]
    ELSE p

\* the host calls the methods of an entity that was added; before that only
\* setup_platform calls do_update
UpdateMayStart == mc_platform.pc = "setup" \/ mc_platform.added

\* McIntoshDevice.__init__, called by setup_platform
InitMcIntosh ==
    /\ ParseIdle
    /\ LutronIdle
    /\ _name = DEFAULT_NAME
    /\ _pwstate = PWSTANDBY
    /\ _volume = 0
    /\ _volume_max = 98
    /\ _source_list = NORMAL_INPUTS \o MEDIA_MODES
    /\ _muted = FALSE
    /\ _mediasource = <<>>
    /\ _mediainfo = <<>>
    /\ _should_setup_sources = TRUE
    /\ mc_pc = "idle"
    /\ mc_rep = NoReplies
    /\ mc_last = Ended("none", "none", "none")
    /\ mc_platform = PlatformSetupBegins

McIdle ==
    /\ _name = DEFAULT_NAME
    /\ _pwstate = PWSTANDBY
    /\ _volume = 0
    /\ _volume_max = 98
    /\ _source_list = NORMAL_INPUTS \o MEDIA_MODES
    /\ _muted = FALSE
    /\ _mediasource = <<>>
    /\ _mediainfo = <<>>
    /\ _should_setup_sources = TRUE
    /\ mc_pc = "idle"
    /\ mc_rep = NoReplies
    /\ mc_last = Ended("none", "none", "none")
    /\ mc_platform = PlatformSetupBegins

---------------------------------------------------------------------------
(* lutron_hwqsx: setup of a config entry and of its platforms *)

\* a config entry that was never set up: a new installation for a bridge
\* with any of the device layouts and up to MaxButtons buttons, or for a
\* bridge with up to two occupancy groups, or an installation whose
\* registries an earlier version filled
InitLutron ==
    /\ ParseIdle
    /\ McIdle
    /\ \/ /\ devices \in DeviceLayouts
          /\ buttons \in SeqsUpTo(ButtonRecords, MaxButtons)
          /\ occupancy_groups = <<>>
          /\ dev_reg = {}
          /\ ent_reg = <<>>
          /\ entry_unique_id = PyNone
       \/ /\ devices = PlainLayout
          /\ buttons = <<>>
          /\ occupancy_groups \in OccupancyGroupDicts
          /\ dev_reg = {}
          /\ ent_reg = <<>>
          /\ entry_unique_id = PyNone
       \/ /\ devices = PlainLayout
          /\ buttons = <<>>
          /\ occupancy_groups = <<>>
          /\ \E r \in LegacyRegistries : dev_reg = r.dev /\ ent_reg = r.ent
          /\ entry_unique_id \in {PyNone, serial_to_unique_id(BridgeDevice.serial)}
    /\ migrations = <<>>
    /\ unloads = <<>>
    /\ setup_order = <<>>
    /\ callbacks = <<>>
    /\ bus = <<>>
    /\ button_entities = <<>>
    /\ led_entities = <<>>
    /\ occupancy_sensors = {}
    /\ ha_state = [g \in 1..Len(occupancy_groups) |-> "none"]
    /\ subscribed = {}
    /\ hass_data = FALSE
    /\ bridge = NoBridge
    /\ setup_calls = 0
    /\ connect_calls = 0
    /\ lut_pc = "not_loaded"
    /\ lut_ret = "none"
    /\ lut_env = [tls |-> "none", connect |-> "none"]
    /\ platforms = PlatformsPending

\* __init__.async_setup_entry, lines 158-164: create_tls raises ssl.SSLError
SetupEntrySSLError ==
    /\ lut_pc = "not_loaded"
    /\ setup_calls < MaxSetups
    /\ setup_calls' = setup_calls + 1
    /\ lut_env' = [tls |-> "ssl_error", connect |-> "none"]
    /\ lut_ret' = "False"
    /\ UNCHANGED <<devices, buttons, occupancy_groups, dev_reg, button_entities,
                   led_entities, occupancy_sensors, ha_state, subscribed,
                   hass_data, bridge, connect_calls, lut_pc, platforms>>
    /\ UNCHANGED <<parseVars, mcVars, regVars, hostVars>>

\* a setup that connects a second time when the first connect failed, and
\* leaves the bridge open
Mutant_SetupEntryNotReady_retries ==
    /\ lut_pc = "not_loaded"
    /\ setup_calls < MaxSetups
    /\ setup_calls' = setup_calls + 1
    /\ connect_calls' = connect_calls + 2
    /\ \E outcome \in {"timeout", "not_connected"} :
          lut_env' = [tls |-> "ok", connect |-> outcome]
    /\ bridge' = [created |-> TRUE, connected |-> FALSE, closed |-> FALSE]
    /\ lut_ret' = "ConfigEntryNotReady"
    /\ UNCHANGED <<devices, buttons, occupancy_groups, dev_reg, button_entities,
                   led_entities, occupancy_sensors, ha_state, subscribed,
                   hass_data, lut_pc, platforms, unloads>>
    /\ callbacks' = <<>>
    /\ bus' = <<>>
    /\ UNCHANGED <<parseVars, mcVars, regVars>>

\* __init__.async_setup_entry, lines 166-177: the connect times out, or it
\* returns and the bridge is not connected
SetupEntryNotReady ==
    /\ lut_pc = "not_loaded"
    /\ setup_calls < MaxSetups
    /\ setup_calls' = setup_calls + 1
    /\ connect_calls' = connect_calls + 1
    /\ \E outcome \in {"timeout", "not_connected"} :
          lut_env' = [tls |-> "ok", connect |-> outcome]
    /\ bridge' = [created |-> TRUE, connected |-> FALSE, closed |-> TRUE]
    /\ lut_ret' = "ConfigEntryNotReady"
    /\ UNCHANGED <<devices, buttons, occupancy_groups, dev_reg, button_entities,
                   led_entities, occupancy_sensors, ha_state, subscribed,
                   hass_data, lut_pc, platforms, unloads>>
    /\ callbacks' = <<>>
    /\ bus' = <<>>
    /\ UNCHANGED <<parseVars, mcVars, regVars>>

\* the steps of async_setup_entry from line 180 on, in the order of the
\* code; a KeyError of the registration ends them
SetupOrder(raised) ==
    IF raised
    THEN <<"migrate", "unique_id", "register_bridge", "register_buttons">>
    ELSE <<"migrate", "unique_id", "register_bridge", "register_buttons",
           "subscribe", "store", "forward">>

\* a setup that forwards the platforms before it stores the bridge data
Mutant_SetupEntryConnected_forwards_first ==
    /\ lut_pc = "not_loaded"
    /\ setup_calls < MaxSetups
    /\ setup_calls' = setup_calls + 1
    /\ connect_calls' = connect_calls + 1
    /\ lut_env' = [tls |-> "ok", connect |-> "ok"]
    /\ bridge' = [created |-> TRUE, connected |-> TRUE, closed |-> FALSE]
    /\ LET bridge_device == devices[1]
           m == _async_migrate_unique_ids(ent_reg, dev_reg, entry_unique_id)
           r == _async_register_button_devices(
                    RegisterBridgeDevice(m.dev, bridge_device), buttons,
                    Init_button_group_to_device_map(devices), bridge_device)
       IN  /\ ent_reg' = m.ent
           /\ migrations' = Append(migrations, entry_unique_id)
           /\ entry_unique_id' = IF entry_unique_id \in {PyNone, <<>>}
                                 THEN serial_to_unique_id(bridge_device.serial)
                                 ELSE entry_unique_id
           /\ setup_order' = SubSeq(SetupOrder(r.raised), 1, 5) \o <<"forward", "store">>
           /\ dev_reg' = r.reg
           /\ buttons' = r.btns
           /\ IF r.raised
              THEN /\ lut_ret' = "KeyError"
                   /\ UNCHANGED <<subscribed, hass_data, lut_pc, platforms>>
              ELSE /\ lut_ret' = "running"
                   /\ subscribed' = {ButtonId(i) : i \in 1..Len(buttons)}
                   /\ hass_data' = hass_data
                   /\ lut_pc' = "forwarding"
                   /\ platforms' = PlatformsPending
    /\ UNCHANGED <<devices, occupancy_groups, button_entities, led_entities,
                   occupancy_sensors, ha_state, unloads>>
    /\ callbacks' = <<>>
    /\ bus' = <<>>
    /\ UNCHANGED <<parseVars, mcVars>>

\* __init__.async_setup_entry, lines 166-213: the bridge connects; the bridge
\* and button devices are registered, the buttons subscribed, the data
\* stored and the platforms forwarded.  A KeyError of the registration ends
\* the setup there
\* (the migration of line 180 and the entry's unique_id of lines 184-187
\* come before the registration and stay when it raises)
SetupEntryConnected ==
    /\ lut_pc = "not_loaded"
    /\ setup_calls < MaxSetups
    /\ setup_calls' = setup_calls + 1
    /\ connect_calls' = connect_calls + 1
    /\ lut_env' = [tls |-> "ok", connect |-> "ok"]
    /\ bridge' = [created |-> TRUE, connected |-> TRUE, closed |-> FALSE]
    /\ LET bridge_device == devices[1]
           m == _async_migrate_unique_ids(ent_reg, dev_reg, entry_unique_id)
           r == _async_register_button_devices(
                    RegisterBridgeDevice(m.dev, bridge_device), buttons,
                    Init_button_group_to_device_map(devices), bridge_device)
       IN  /\ ent_reg' = m.ent
           /\ migrations' = Append(migrations, entry_unique_id)
           /\ entry_unique_id' = IF entry_unique_id \in {PyNone, <<>>}
                                 THEN serial_to_unique_id(bridge_device.serial)
                                 ELSE entry_unique_id
           /\ setup_order' = SetupOrder(r.raised)
           /\ dev_reg' = r.reg
           /\ buttons' = r.btns
           /\ IF r.raised
              THEN /\ lut_ret' = "KeyError"
                   /\ UNCHANGED <<subscribed, hass_data, lut_pc, platforms>>
              ELSE /\ lut_ret' = "running"
                   /\ subscribed' = {ButtonId(i) : i \in 1..Len(buttons)}
                   /\ hass_data' = TRUE
                   /\ lut_pc' = "forwarding"
                   /\ platforms' = PlatformsPending
    /\ UNCHANGED <<devices, occupancy_groups, button_entities, led_entities,
                   occupancy_sensors, ha_state, unloads>>
    /\ callbacks' = <<>>
    /\ bus' = <<>>
    /\ UNCHANGED <<parseVars, mcVars>>

\* button.async_setup_entry, run by the host while the setups are forwarded;
\* reading hass.data[DOMAIN][entry_id] (line 49) is a KeyError without the data
ButtonPlatformSetup ==
    /\ lut_pc = "forwarding"
    /\ platforms.button = "pending"
    /\ LET r == IF ~hass_data
                THEN [entities |-> <<>>, raised |-> TRUE]
                ELSE ButtonEntitiesFrom([entities |-> <<>>, raised |-> FALSE], 1,
                                        buttons,
                                        Button_button_group_to_device_map(devices))
       IN  IF r.raised
           THEN /\ platforms' = [platforms EXCEPT !.button = "KeyError"]
                /\ UNCHANGED <<button_entities, dev_reg>>
           ELSE /\ platforms' = [platforms EXCEPT !.button = "ok"]
                /\ button_entities' = r.entities
                /\ dev_reg' = AddEntityDevices(dev_reg, r.entities)
    /\ UNCHANGED <<devices, buttons, occupancy_groups, led_entities,
                   occupancy_sensors, ha_state, subscribed, hass_data, bridge,
                   setup_calls, connect_calls, lut_pc, lut_ret, lut_env>>
    /\ UNCHANGED <<parseVars, mcVars, regVars, hostVars>>

\* binary_sensor.async_setup_entry; reading hass.data[DOMAIN][entry_id] is a
\* KeyError without the data.  The occupancy sensors are handed to the
\* host as a generator: when a constructor raises, the host adds none of
\* them, and the setup goes on with the LEDs
BinarySensorPlatformSetup ==
    /\ lut_pc = "forwarding"
    /\ platforms.binary_sensor = "pending"
    /\ IF \/ ~hass_data
          \/ \E g \in 1..Len(occupancy_groups) : OccupancySensorRaises(occupancy_groups[g])
       THEN UNCHANGED <<occupancy_sensors, ha_state>>
       ELSE /\ occupancy_sensors' = 1..Len(occupancy_groups)
            /\ ha_state' = [g \in 1..Len(occupancy_groups) |->
                               IF is_on(occupancy_groups[g]) THEN "on" ELSE "off"]
    /\ LET r == IF ~hass_data
                THEN [entities |-> <<>>, raised |-> TRUE]
                ELSE LedEntitiesFrom([entities |-> <<>>, raised |-> FALSE], 1, buttons,
                                     devices,
                                     BinarySensor_button_group_to_device_map(devices))
       IN  IF r.raised
           THEN /\ platforms' = [platforms EXCEPT !.binary_sensor = "KeyError"]
                /\ UNCHANGED <<led_entities, dev_reg>>
           ELSE /\ platforms' = [platforms EXCEPT !.binary_sensor = "ok"]
                /\ led_entities' = r.entities
                /\ dev_reg' = AddEntityDevices(dev_reg, r.entities)
    /\ UNCHANGED <<devices, buttons, occupancy_groups, button_entities,
                   subscribed, hass_data, bridge,
                   setup_calls, connect_calls, lut_pc, lut_ret, lut_env>>
    /\ UNCHANGED <<parseVars, mcVars, regVars, hostVars>>

\* __init__.async_setup_entry, lines 213-215: the platforms were forwarded
SetupEntryReturns ==
    /\ lut_pc = "forwarding"
    /\ platforms.button # "pending"
    /\ platforms.binary_sensor # "pending"
    /\ lut_pc' = "loaded"
    /\ lut_ret' = "True"
    /\ UNCHANGED <<devices, buttons, occupancy_groups, dev_reg, button_entities,
                   led_entities, occupancy_sensors, ha_state, subscribed,
                   hass_data, bridge, setup_calls, connect_calls, lut_env,
                   platforms>>
    /\ UNCHANGED <<parseVars, mcVars, regVars, hostVars>>

\* the bridge reports a new status of an occupancy group; a sensor that was
\* added has subscribed (async_added_to_hass) and writes its state
OccupancyStatusChanges ==
    /\ bridge.connected
    /\ \E g \in 1..Len(occupancy_groups), status \in OccupancyStatuses :
          /\ status # occupancy_groups[g].status
          /\ occupancy_groups' = [occupancy_groups EXCEPT ![g].status = status]
          /\ IF g \in occupancy_sensors
             THEN ha_state' = [ha_state EXCEPT
                                 ![g] = IF is_on(occupancy_groups'[g])
                                        THEN "on" ELSE "off"]
             ELSE UNCHANGED ha_state
    /\ UNCHANGED <<devices, buttons, dev_reg, button_entities, led_entities,
                   occupancy_sensors, subscribed, hass_data, bridge,
                   setup_calls, connect_calls, lut_pc, lut_ret, lut_env, platforms>>
    /\ UNCHANGED <<parseVars, mcVars, regVars, hostVars>>

\* an unload that closes the bridge only when the platforms were unloaded
Mutant_UnloadEntry_closes_if_ok ==
    /\ lut_pc = "loaded"
    /\ hass_data
    /\ \E unload_ok \in BOOLEAN :
          /\ bridge' = IF unload_ok
                       THEN [bridge EXCEPT !.connected = FALSE, !.closed = TRUE]
                       ELSE bridge
          /\ hass_data' = IF unload_ok THEN FALSE ELSE hass_data
          /\ unloads' = Append(unloads, [unload_ok |-> unload_ok, returned |-> unload_ok])
          /\ lut_ret' = PyBool(unload_ok)[1]
          /\ IF unload_ok
             THEN /\ lut_pc' = "not_loaded"
                  /\ button_entities' = <<>>
                  /\ led_entities' = <<>>
                  /\ occupancy_sensors' = {}
                  /\ ha_state' = [g \in 1..Len(occupancy_groups) |-> "none"]
             ELSE /\ lut_pc' = "failed_unload"
                  /\ UNCHANGED <<button_entities, led_entities, occupancy_sensors,
                                 ha_state>>
    /\ UNCHANGED <<devices, buttons, occupancy_groups, dev_reg, subscribed,
                   setup_calls, connect_calls, lut_env, platforms, callbacks, bus>>
    /\ UNCHANGED <<parseVars, mcVars, regVars>>

\* __init__.async_unload_entry, lines 372-380, for an entry that is set up;
\* unload_ok is what the host's async_unload_platforms reports.  Platforms
\* that were unloaded have their entities removed; an entry whose unload
\* failed is not set up again
UnloadEntry ==
    /\ lut_pc = "loaded"
    /\ hass_data
    /\ \E unload_ok \in BOOLEAN :
          /\ bridge' = [bridge EXCEPT !.connected = FALSE, !.closed = TRUE]
          /\ hass_data' = IF unload_ok THEN FALSE ELSE hass_data
          /\ unloads' = Append(unloads, [unload_ok |-> unload_ok, returned |-> unload_ok])
          /\ lut_ret' = PyBool(unload_ok)[1]
          /\ IF unload_ok
             THEN /\ lut_pc' = "not_loaded"
                  /\ button_entities' = <<>>
                  /\ led_entities' = <<>>
                  /\ occupancy_sensors' = {}
                  /\ ha_state' = [g \in 1..Len(occupancy_groups) |-> "none"]
             ELSE /\ lut_pc' = "failed_unload"
                  /\ UNCHANGED <<button_entities, led_entities, occupancy_sensors,
                                 ha_state>>
    /\ UNCHANGED <<devices, buttons, occupancy_groups, dev_reg, subscribed,
                   setup_calls, connect_calls, lut_env, platforms, callbacks, bus>>
    /\ UNCHANGED <<parseVars, mcVars, regVars>>

\* the connected bridge reports a status of a button: the callback that
\* lines 363-369 subscribed for the button runs _async_button_event; the
\* handler may also be reached with an id that the dictionary does not hold
ButtonEvent ==
    /\ bridge.connected
    /\ subscribed # {}
    /\ \E i \in 1..(Len(buttons) + 1), event_type \in ButtonStatuses :
          /\ i <= Len(buttons) => ButtonId(i) \in subscribed
          /\ LET r == _async_button_event(i, event_type, buttons,
                                          Init_button_group_to_device_map(devices),
                                          dev_reg)
             IN  /\ callbacks' = <<[button |-> i, event_type |-> event_type,
                                    outcome |-> r.outcome]>>
                 /\ bus' = r.fired
    /\ UNCHANGED <<devices, buttons, occupancy_groups, dev_reg, button_entities,
                   led_entities, occupancy_sensors, ha_state, subscribed,
                   hass_data, bridge, setup_calls, connect_calls, lut_pc, lut_ret,
                   lut_env, platforms, unloads>>
    /\ UNCHANGED <<parseVars, mcVars, regVars>>

NextLutron ==
    \/ SetupEntrySSLError
    \/ SetupEntryNotReady
    \/ SetupEntryConnected
    \/ ButtonPlatformSetup
    \/ BinarySensorPlatformSetup
    \/ SetupEntryReturns
    \/ OccupancyStatusChanges
    \/ UnloadEntry

SpecLutron == InitLutron /\ [][NextLutron]_vars

\* the same with the button status callbacks, which change nothing but the
\* record of the last callback and of its events
NextButtonEvents ==
    \/ NextLutron
    \/ ButtonEvent

SpecButtonEvents == InitLutron /\ [][NextButtonEvents]_vars

---------------------------------------------------------------------------
(* mcintosh: the entity's methods *)

\* a failed open that also puts the entity in standby
Mutant_DoUpdateOpenFails_standby ==
    /\ mc_pc = "idle"
    /\ UpdateMayStart
    /\ mc_last' = Ended("do_update", "False", "oserror")
    /\ mc_platform' = setup_platform(StartsUpdate(mc_platform), "False")
    /\ _pwstate' = PWSTANDBY
    /\ UNCHANGED <<_name, _volume, _volume_max, _source_list, _muted,
                   _mediasource, _mediainfo, _should_setup_sources, mc_pc, mc_rep>>
    /\ UNCHANGED <<parseVars, lutVars>>

\* do_update, lines 203-207: telnetlib.Telnet(host) raises OSError
DoUpdateOpenFails ==
    /\ mc_pc = "idle"
    /\ UpdateMayStart
    /\ mc_last' = Ended("do_update", "False", "oserror")
    /\ mc_platform' = setup_platform(StartsUpdate(mc_platform), "False")
    /\ UNCHANGED <<mcFields, mc_pc, mc_rep>>
    /\ UNCHANGED <<parseVars, lutVars>>

\* do_update, lines 203-209 (and 133): the connection opens
DoUpdateOpen ==
    /\ mc_pc = "idle"
    /\ UpdateMayStart
    /\ mc_platform' = StartsUpdate(mc_platform)
    /\ mc_rep' = NoReplies
    /\ mc_last' = Ended("do_update", "running", "ok")
    /\ IF ~_should_setup_sources
       THEN mc_pc' = "pw" /\ UNCHANGED _source_list
       ELSE IF _name = DEFAULT_NAME
       THEN mc_pc' = "nsfrn" /\ UNCHANGED _source_list
       ELSE mc_pc' = "ssfun" /\ _source_list' = <<>>
    /\ UNCHANGED <<_name, _pwstate, _volume, _volume_max, _muted,
                   _mediasource, _mediainfo, _should_setup_sources>>
    /\ UNCHANGED <<parseVars, lutVars>>

\* _setup_sources, lines 128-133
SetupSourcesNSFRN ==
    /\ mc_pc = "nsfrn"
    /\ \E lines \in NSFRNReplies : _name' = SetupSourcesName(_name, lines)
    /\ _source_list' = <<>>
    /\ mc_pc' = "ssfun"
    /\ UNCHANGED <<_pwstate, _volume, _volume_max, _muted, _mediasource,
                   _mediainfo, _should_setup_sources, mc_rep, mc_last>>
    /\ UNCHANGED mc_platform
    /\ UNCHANGED <<parseVars, lutVars>>

\* _setup_sources, lines 134-144
SetupSourcesSSFUN ==
    /\ mc_pc = "ssfun"
    /\ \E lines \in SSFUNReplies :
          _source_list' = SsfunLines(_source_list, telnet_request_all(lines))
    /\ mc_pc' = "sssod"
    /\ UNCHANGED <<_name, _pwstate, _volume, _volume_max, _muted, _mediasource,
                   _mediainfo, _should_setup_sources, mc_rep, mc_last>>
    /\ UNCHANGED mc_platform
    /\ UNCHANGED <<parseVars, lutVars>>

\* _setup_sources, lines 149-155, and do_update, line 211
SetupSourcesSSSOD ==
    /\ mc_pc = "sssod"
    /\ \E lines \in SSSODReplies :
          _source_list' = SssodLines(_source_list, telnet_request_all(lines))
    /\ _should_setup_sources' = FALSE
    /\ mc_pc' = "pw"
    /\ UNCHANGED <<_name, _pwstate, _volume, _volume_max, _muted, _mediasource,
                   _mediainfo, mc_rep, mc_last>>
    /\ UNCHANGED mc_platform
    /\ UNCHANGED <<parseVars, lutVars>>

\* do_update, line 213
DoUpdatePW ==
    /\ mc_pc = "pw"
    /\ \E lines \in PWReplies :
          /\ _pwstate' = get_telnet_response(lines, <<"P","W">>, FALSE, _pwstate)
          /\ mc_rep' = [mc_rep EXCEPT !.pw = lines]
    /\ mc_pc' = "mv"
    /\ UNCHANGED <<_name, _volume, _volume_max, _source_list, _muted,
                   _mediasource, _mediainfo, _should_setup_sources, mc_last>>
    /\ UNCHANGED mc_platform
    /\ UNCHANGED <<parseVars, lutVars>>

\* do_update, line 214
DoUpdateMV ==
    /\ mc_pc = "mv"
    /\ \E lines \in MVReplies :
          LET v == handle_volume_response(_volume, _volume_max,
                                          telnet_request_all(lines))
          IN  /\ _volume' = v.volume
              /\ _volume_max' = v.volume_max
              /\ mc_rep' = [mc_rep EXCEPT !.mv = lines]
    /\ mc_pc' = "mu"
    /\ UNCHANGED <<_name, _pwstate, _source_list, _muted,
                   _mediasource, _mediainfo, _should_setup_sources, mc_last>>
    /\ UNCHANGED mc_platform
    /\ UNCHANGED <<parseVars, lutVars>>

\* do_update, line 215
DoUpdateMU ==
    /\ mc_pc = "mu"
    /\ \E lines \in MUReplies :
          /\ _muted' = (get_telnet_response(lines, <<"M","U">>, FALSE, PyBool(_muted))
                            = <<"M","U","O","N">>)
          /\ mc_rep' = [mc_rep EXCEPT !.mu = lines]
    /\ mc_pc' = "si"
    /\ UNCHANGED <<_name, _pwstate, _volume, _volume_max, _source_list,
                   _mediasource, _mediainfo, _should_setup_sources, mc_last>>
    /\ UNCHANGED mc_platform
    /\ UNCHANGED <<parseVars, lutVars>>

\* do_update, lines 216-219 and 233-237
DoUpdateSI ==
    /\ mc_pc = "si"
    /\ \E lines \in SIReplies :
          /\ _mediasource' = get_telnet_response(lines, <<"S","I">>, TRUE, _mediasource)
          /\ mc_rep' = [mc_rep EXCEPT !.si = lines]
    /\ IF _mediasource' \in DictValues(MEDIA_MODES)
       THEN /\ _mediainfo' = <<>>
            /\ mc_pc' = "nse"
            /\ UNCHANGED <<mc_last, mc_platform>>
       ELSE /\ _mediainfo' = Source(_source_list, _mediasource')
            /\ mc_pc' = "idle"
            /\ mc_last' = Ended("do_update", "True", "ok")
            /\ mc_platform' = setup_platform(mc_platform, "True")
    /\ UNCHANGED <<_name, _pwstate, _volume, _volume_max, _source_list, _muted,
                   _should_setup_sources>>
    /\ UNCHANGED <<parseVars, lutVars>>

\* do_update, lines 231-237
DoUpdateNSE ==
    /\ mc_pc = "nse"
    /\ \E lines \in NSEReplies :
          _mediainfo' = MediaInfoLines(_mediainfo, telnet_request_all(lines), 1)
    /\ mc_pc' = "idle"
    /\ mc_last' = Ended("do_update", "True", "ok")
    /\ mc_platform' = setup_platform(mc_platform, "True")
    /\ UNCHANGED <<_name, _pwstate, _volume, _volume_max, _source_list, _muted,
                   _mediasource, _should_setup_sources, mc_rep>>
    /\ UNCHANGED <<parseVars, lutVars>>

\* do_update: a write or read on the open connection raises (the connection
\* drops); nothing catches it, and what was assigned so far stays
DoUpdateIOError ==
    /\ mc_pc \in {"nsfrn", "ssfun", "sssod", "pw", "mv", "mu", "si", "nse"}
    /\ mc_pc' = "idle"
    /\ mc_last' = Ended("do_update", "raised", "ok")
    /\ mc_platform' = setup_platform(mc_platform, "raised")
    /\ UNCHANGED <<mcFields, mc_rep>>
    /\ UNCHANGED <<parseVars, lutVars>>

\* turn_on, turn_off, select_source, set_volume_level, volume_up, volume_down,
\* mute_volume: telnetlib.Telnet(host) raises OSError, which none of them catches
CommandOpenFails ==
    /\ mc_pc = "idle"
    /\ mc_platform.added
    /\ mc_last' = Ended("command", "raised", "oserror")
    /\ mc_rep' = NoReplies
    /\ UNCHANGED <<mcFields, mc_pc>>
    /\ UNCHANGED mc_platform
    /\ UNCHANGED <<parseVars, lutVars>>

\* turn_on; io_error: the write or the read raises after line 303
turn_on ==
    /\ mc_pc = "idle"
    /\ mc_platform.added
    /\ \E io_error \in BOOLEAN :
          IF io_error
          THEN /\ _pwstate' = <<"P","W","O","N">>
               /\ mc_last' = Ended("turn_on", "raised", "ok")
          ELSE /\ \E lines \in {<<>>, <<PWON>>} : _pwstate' = telnet_request(lines)
               /\ mc_last' = Ended("turn_on", "None", "ok")
    /\ mc_rep' = NoReplies
    /\ UNCHANGED <<_name, _volume, _volume_max, _source_list, _muted,
                   _mediasource, _mediainfo, _should_setup_sources, mc_pc>>
    /\ UNCHANGED mc_platform
    /\ UNCHANGED <<parseVars, lutVars>>

\* turn_off
turn_off ==
    /\ mc_pc = "idle"
    /\ mc_platform.added
    /\ \E io_error \in BOOLEAN :
          IF io_error
          THEN /\ _pwstate' = <<"P","W","S","T","A","N","D","B","Y">>
               /\ mc_last' = Ended("turn_off", "raised", "ok")
          ELSE /\ \E lines \in {<<>>, <<PWSTANDBY>>} : _pwstate' = telnet_request(lines)
               /\ mc_last' = Ended("turn_off", "None", "ok")
    /\ mc_rep' = NoReplies
    /\ UNCHANGED <<_name, _volume, _volume_max, _source_list, _muted,
                   _mediasource, _mediainfo, _should_setup_sources, mc_pc>>
    /\ UNCHANGED mc_platform
    /\ UNCHANGED <<parseVars, lutVars>>

\* select_source(source)
select_source ==
    /\ mc_pc = "idle"
    /\ mc_platform.added
    /\ \E source \in SelectableSources, io_error \in BOOLEAN :
          IF io_error
          THEN /\ _mediasource' = source
               /\ mc_last' = Ended("command", "raised", "ok")
          ELSE /\ \E lines \in SIReplies :
                     _mediasource' = SliceFrom(telnet_request(lines), 2)
               /\ mc_last' = Ended("select_source", "None", "ok")
    /\ mc_rep' = NoReplies
    /\ UNCHANGED <<_name, _pwstate, _volume, _volume_max, _source_list, _muted,
                   _mediainfo, _should_setup_sources, mc_pc>>
    /\ UNCHANGED mc_platform
    /\ UNCHANGED <<parseVars, lutVars>>

\* set_volume_level(volume), volume = percent / 100
set_volume_level ==
    /\ mc_pc = "idle"
    /\ mc_platform.added
    /\ \E percent \in VolumePercents, io_error \in BOOLEAN :
          LET set == PyRoundPercent(percent, _volume_max)
          IN  IF io_error
              THEN /\ _volume' = set
                   /\ UNCHANGED _volume_max
                   /\ mc_last' = Ended("command", "raised", "ok")
              ELSE /\ \E lines \in MVReplies :
                         LET v == handle_volume_response(set, _volume_max,
                                                         telnet_request_all(lines))
                         IN  /\ _volume' = v.volume
                             /\ _volume_max' = v.volume_max
                   /\ mc_last' = Ended("set_volume_level", "None", "ok")
    /\ mc_rep' = NoReplies
    /\ UNCHANGED <<_name, _pwstate, _source_list, _muted,
                   _mediasource, _mediainfo, _should_setup_sources, mc_pc>>
    /\ UNCHANGED mc_platform
    /\ UNCHANGED <<parseVars, lutVars>>

\* volume_up and volume_down: MVUP / MVDOWN, then handle_volume_response
volume_up_down ==
    /\ mc_pc = "idle"
    /\ mc_platform.added
    /\ \E op \in {"volume_up", "volume_down"}, io_error \in BOOLEAN :
          IF io_error
          THEN /\ UNCHANGED <<_volume, _volume_max>>
               /\ mc_last' = Ended("command", "raised", "ok")
          ELSE /\ \E lines \in MVReplies :
                     LET v == handle_volume_response(_volume, _volume_max,
                                                     telnet_request_all(lines))
                     IN  /\ _volume' = v.volume
                         /\ _volume_max' = v.volume_max
               /\ mc_last' = Ended(op, "None", "ok")
    /\ mc_rep' = NoReplies
    /\ UNCHANGED <<_name, _pwstate, _source_list, _muted,
                   _mediasource, _mediainfo, _should_setup_sources, mc_pc>>
    /\ UNCHANGED mc_platform
    /\ UNCHANGED <<parseVars, lutVars>>

\* mute_volume(mute)
mute_volume ==
    /\ mc_pc = "idle"
    /\ mc_platform.added
    /\ \E mute \in BOOLEAN, io_error \in BOOLEAN :
          IF io_error
          THEN /\ _muted' = mute
               /\ mc_last' = Ended("command", "raised", "ok")
          ELSE /\ \E lines \in MUReplies :
                     _muted' = (telnet_request(lines) = <<"M","U","O","N">>)
               /\ mc_last' = Ended("mute_volume", "None", "ok")
    /\ mc_rep' = NoReplies
    /\ UNCHANGED <<_name, _pwstate, _volume, _volume_max, _source_list,
                   _mediasource, _mediainfo, _should_setup_sources, mc_pc>>
    /\ UNCHANGED mc_platform
    /\ UNCHANGED <<parseVars, lutVars>>

NextMcIntosh ==
    \/ DoUpdateOpenFails
    \/ DoUpdateOpen
    \/ SetupSourcesNSFRN
    \/ SetupSourcesSSFUN
    \/ SetupSourcesSSSOD
    \/ DoUpdatePW
    \/ DoUpdateMV
    \/ DoUpdateMU
    \/ DoUpdateSI
    \/ DoUpdateNSE
    \/ DoUpdateIOError
    \/ CommandOpenFails
    \/ turn_on
    \/ turn_off
    \/ select_source
    \/ set_volume_level
    \/ volume_up_down
    \/ mute_volume

SpecMcIntosh == InitMcIntosh /\ [][NextMcIntosh]_vars


---------------------------------------------------------------------------
(* the parsers, called on every short device name *)

InitParse ==
    /\ McIdle
    /\ LutronIdle
    /\ device_name \in StringsUpTo(NameAlphabet, MaxNameLen)
    /\ parsed = [c \in ParserCopies |-> NotCalled]

CallInitParser ==
    /\ UNCHANGED <<mcVars, lutVars>>
    /\ ~parsed["init"].called
    /\ parsed' = [parsed EXCEPT
                    !["init"] = Returned(Init_area_and_name_from_name(device_name))]
    /\ UNCHANGED device_name

CallBinarySensorParser ==
    /\ UNCHANGED <<mcVars, lutVars>>
    /\ ~parsed["binary_sensor"].called
    /\ parsed' = [parsed EXCEPT
                    !["binary_sensor"] =
                        Returned(BinarySensor_button_area_and_name_from_name(device_name))]
    /\ UNCHANGED device_name

CallButtonParser ==
    /\ UNCHANGED <<mcVars, lutVars>>
    /\ ~parsed["button"].called
    /\ parsed' = [parsed EXCEPT
                    !["button"] = Returned(Button_area_and_name_from_name(device_name))]
    /\ UNCHANGED device_name

NextParse ==
    \/ CallInitParser
    \/ CallBinarySensorParser
    \/ CallButtonParser

SpecParse == InitParse /\ [][NextParse]_vars

\* C1: for every device name, _area_and_name_from_name returns (the text
\* before the first underscore, all text after it) when the name contains
\* an underscore, and ("Unassigned", the unchanged name) when it has none.
C1_AreaAndNameFromName ==
    parsed["init"].called =>
        LET r == parsed["init"]
        IN  IF \E i \in 1..Len(device_name) : device_name[i] = "_"
            THEN /\ r.area \o <<"_">> \o r.name = device_name
                 /\ \A i \in 1..Len(r.area) : r.area[i] # "_"
            ELSE /\ r.area = <<"U","n","a","s","s","i","g","n","e","d">>
                 /\ r.name = device_name

\* a name with two underscores has been parsed by the __init__ copy
C1_Witness ==
    /\ parsed["init"].called
    /\ Cardinality({i \in 1..Len(device_name) : device_name[i] = "_"}) >= 2
    /\ parsed["init"].name # <<>>

\* C2: the three copies of the parser return the same pair for every input.
C2_ParserCopiesAgree ==
    \A c, d \in ParserCopies :
        (parsed[c].called /\ parsed[d].called) => parsed[c] = parsed[d]

\* all three copies were called, on a name with and a name without underscore
C2_Witness ==
    /\ \A c \in ParserCopies : parsed[c].called
    /\ Len(device_name) >= 2
    /\ parsed["button"].area # UNASSIGNED_AREA

---------------------------------------------------------------------------
(* claims about the setup of a lutron_hwqsx config entry *)

\* the setup and both platform setups have ended without an exception
SetupCompleted ==
    /\ lut_pc = "loaded"
    /\ platforms.button = "ok"
    /\ platforms.binary_sensor = "ok"

IsKeypadButton(i) == buttons[i].type \in QSX_KEYPADS

\* the control station that lists the button group of button i
ControlStationOf(i) ==
    Init_button_group_to_device_map(devices)[buttons[i].button_group.v]

HasLedEntity(i) ==
    /\ buttons[i].button_led \notin {Absent, NoneV}
    /\ buttons[i].button_name \notin {SEETOUCH_BUTTON_NAME_LOWER, SEETOUCH_BUTTON_NAME_RAISE}

\* C3: once the setup and the platforms have completed, every keypad button's
\* control station is in the device registry with via_device the bridge's
\* serial, and the button's entity and its LED's entity are attached to the
\* device with the control station's device_id.
C3_KeypadDevicesNested ==
    SetupCompleted =>
        \A i \in 1..Len(buttons) :
            IsKeypadButton(i) =>
                /\ \E d \in dev_reg :
                      /\ d.id = ControlStationOf(i).device_id
                      /\ d.via = devices[1].serial
                /\ \E e \in 1..Len(button_entities) :
                      /\ button_entities[e].device_id = ButtonId(i)
                      /\ button_entities[e].device_info.id = ControlStationOf(i).device_id
                /\ HasLedEntity(i) =>
                      \E e \in 1..Len(led_entities) :
                          led_entities[e].device_info.id = ControlStationOf(i).device_id

\* C4: once the binary_sensor platform was set up there is one sensor for
\* each occupancy group of the bridge, and the state it wrote is on exactly
\* when the group's status is OCCUPANCY_GROUP_OCCUPIED.
C4_OccupancySensorPerGroup ==
    platforms.binary_sensor # "pending" =>
        /\ occupancy_sensors = 1..Len(occupancy_groups)
        /\ \A g \in 1..Len(occupancy_groups) :
              ha_state[g] = IF occupancy_groups[g].status = OCCUPANCY_GROUP_OCCUPIED
                            THEN "on" ELSE "off"

\* C5: whenever the button platform's setup was started it completes, with
\* exactly one button entity for every button that has a button_group key
\* and none for the others.
C5_ButtonSetupCompletes ==
    platforms.button # "pending" =>
        /\ platforms.button = "ok"
        /\ \A i \in 1..Len(buttons) :
              Cardinality({e \in 1..Len(button_entities) :
                              button_entities[e].device_id = ButtonId(i)})
                 = IF buttons[i].button_group # Absent THEN 1 ELSE 0

\* a call of async_setup_entry
SetupEntryStep == setup_calls' = setup_calls + 1

\* C7: a call of async_setup_entry connects at most once; when the connect
\* times out or the bridge is not connected afterwards, the bridge is closed,
\* ConfigEntryNotReady is raised and the device registry, the button
\* subscriptions and hass.data are as they were; when create_tls raises
\* ssl.SSLError the call returns False (and has not connected).
C7_SetupConnectsOnce ==
    [][SetupEntryStep =>
          /\ connect_calls' <= connect_calls + 1
          /\ lut_env'.connect \in {"timeout", "not_connected"} =>
                /\ connect_calls' = connect_calls + 1
                /\ bridge'.closed
                /\ lut_ret' = "ConfigEntryNotReady"
                /\ dev_reg' = dev_reg
                /\ subscribed' = subscribed
                /\ hass_data' = hass_data
          /\ lut_env'.tls = "ssl_error" =>
                /\ lut_ret' = "False"
                /\ connect_calls' = connect_calls
                /\ dev_reg' = dev_reg
                /\ subscribed' = subscribed
                /\ hass_data' = hass_data]_vars

\* a setup that failed to connect, after an earlier setup had connected and
\* registered devices
C7_Witness ==
    /\ lut_ret = "ConfigEntryNotReady"
    /\ lut_env.connect \in {"timeout", "not_connected"}
    /\ bridge.closed
    /\ connect_calls = 2
    /\ dev_reg # {}

---------------------------------------------------------------------------
(* claims about the McIntosh entity *)

\* a query was answered: the first line read back starts with the command
Answered(lines, cmd) ==
    /\ lines # <<>>
    /\ Len(lines[1]) >= Len(cmd)
    /\ SubSeq(lines[1], 1, Len(cmd)) = cmd

\* the MV lines of a reply that report the master volume (not MVMAX)
IsVolumeLine(line) ==
    /\ Len(line) >= 4
    /\ line[1] = "M" /\ line[2] = "V"
    /\ \A i \in 3..Len(line) : IsDigit(line[i])

\* the master volume a line "MVdd" or "MVddd" reports, in tenths of a dB:
\* the third digit is the half dB
ReportedTenths(line) ==
    LET d == SubSeq(line, 3, Len(line))
    IN  IF Len(d) = 2 THEN 10 * PyInt(d) ELSE PyInt(d)

LastVolumeLine(lines) ==
    lines[CHOOSE i \in 1..Len(lines) :
              /\ IsVolumeLine(lines[i])
              /\ \A j \in (i + 1)..Len(lines) : ~IsVolumeLine(lines[j])]

AllAnswered ==
    /\ Answered(mc_rep.pw, <<"P","W">>)
    /\ \E i \in 1..Len(mc_rep.mv) : IsVolumeLine(mc_rep.mv[i])
    /\ Answered(mc_rep.mu, <<"M","U">>)
    /\ Answered(mc_rep.si, <<"S","I">>)

DoUpdateReturnedTrue == mc_pc = "idle" /\ mc_last = Ended("do_update", "True", "ok")

\* C6 as stated: after a do_update whose four queries were answered, the
\* power state, the volume, the mute flag and the media source are the
\* values the receiver reported.
C6_Original ==
    (DoUpdateReturnedTrue /\ AllAnswered) =>
        /\ _pwstate = mc_rep.pw[1]
        /\ 10 * _volume = ReportedTenths(LastVolumeLine(mc_rep.mv))
        /\ _muted = (mc_rep.mu[1] = <<"M","U","O","N">>)
        /\ <<"S","I">> \o _mediasource = mc_rep.si[1]

\* C6 as amended: the same, with the volume being the whole-dB part of the
\* reported volume (the half-dB digit of "MVddd" is dropped).
C6_UpdateReflectsAnswers ==
    (DoUpdateReturnedTrue /\ AllAnswered) =>
        /\ _pwstate = mc_rep.pw[1]
        /\ _volume = ReportedTenths(LastVolumeLine(mc_rep.mv)) \div 10
        /\ _muted = (mc_rep.mu[1] = <<"M","U","O","N">>)
        /\ <<"S","I">> \o _mediasource = mc_rep.si[1]

\* an update ended with all four answered: on, 45.5 dB, muted, tuner
C6_Witness ==
    /\ DoUpdateReturnedTrue
    /\ AllAnswered
    /\ mc_rep.pw[1] = PWON
    /\ mc_rep.mv = << <<"M","V","4","5","5">> >>
    /\ _muted
    /\ _mediasource = <<"T","U","N","E","R">>

\* C8: whenever no update is under way, volume_level is defined and within
\* 0..1: _volume_max > 0 and 0 <= _volume <= _volume_max.
C8_VolumeLevelInRange ==
    mc_pc = "idle" =>
        /\ _volume_max > 0
        /\ 0 <= _volume
        /\ _volume <= _volume_max

\* C9: do_update returns False exactly when opening the connection raised
\* OSError, and then no field of the entity has changed; when it runs to
\* completion after a successful connect it returns True.
C9_ReturnValue ==
    (mc_pc = "idle" /\ mc_last.op = "do_update") =>
        /\ (mc_last.ret = "False") <=> (mc_last.open = "oserror")
        /\ (mc_last.open = "ok" /\ mc_last.ret # "raised") => mc_last.ret = "True"

C9_FailedOpenStep ==
    /\ mc_pc = "idle"
    /\ mc_pc' = "idle"
    /\ mc_last'.op = "do_update"
    /\ mc_last'.ret = "False"

C9_DoUpdateFalseOnlyOnOpenError ==
    /\ []C9_ReturnValue
    /\ [][C9_FailedOpenStep =>
            /\ _name' = _name
            /\ _pwstate' = _pwstate
            /\ _volume' = _volume
            /\ _volume_max' = _volume_max
            /\ _muted' = _muted
            /\ _mediasource' = _mediasource
            /\ _mediainfo' = _mediainfo
            /\ _source_list' = _source_list
            /\ _should_setup_sources' = _should_setup_sources]_vars

\* do_update returned False on an entity that earlier updates had changed
C9_Witness ==
    /\ mc_pc = "idle"
    /\ mc_last = Ended("do_update", "False", "oserror")
    /\ _pwstate = PWON
    /\ _volume = 80
    /\ ~_should_setup_sources

\* C10: after turn_on returns the state is ON and after turn_off returns it
\* is OFF, whatever the receiver replied (or did not reply).
C10_TurnOnOffState ==
    /\ mc_last = Ended("turn_on", "None", "ok") => State(_pwstate) = "on"
    /\ mc_last = Ended("turn_off", "None", "ok") => State(_pwstate) = "off"

\* C11: setup_platform has added the entity exactly when its do_update (the
\* first one) returned True; it calls do_update once; and when that call did
\* not return True the entity is not added and nothing is called on it again.
C11_AddedIffFirstUpdateTrue ==
    /\ mc_platform.added <=> (mc_platform.pc = "returned" /\ mc_platform.first = "True")
    /\ mc_platform.updates <= 1
    /\ (mc_platform.pc # "setup" /\ mc_platform.first # "True") =>
          /\ ~mc_platform.added
          /\ mc_pc = "idle"
          /\ mc_last.op = "do_update"

\* the receiver was unreachable at setup: do_update returned False
C11_Witness ==
    /\ mc_platform.pc = "returned"
    /\ mc_platform.first = "False"
    /\ mc_last = Ended("do_update", "False", "oserror")
    /\ mc_platform.updates = 1
    /\ ~mc_platform.added


\* an entity unique id of the old form occupancygroup_<sensor id>
IsOldOccupancyId(u) ==
    StartsWith(u, OccupancyPrefix) /\ Len(PySplit(u, "_")) = 2

\* the step of async_setup_entry that runs _async_migrate_unique_ids
MigrationStep == migrations' # migrations

\* C12: when the migration runs during async_setup_entry, every entity with
\* an old unique id occupancygroup_<sensor id> gets the unique id that
\* LutronOccupancySensor reports for that group on that bridge, the device
\* that had the old id as its identifier gets the same value, and an entity
\* whose unique id does not start with occupancygroup_ keeps its unique id
C12_MigrationGivesSensorUniqueId ==
    [][MigrationStep =>
         /\ Len(ent_reg') = Len(ent_reg)
         /\ \A i \in 1..Len(ent_reg) :
               /\ IsOldOccupancyId(ent_reg[i]) =>
                     \E g \in 0..15 :
                        /\ OccupancyGroupId(g) = PySplit(ent_reg[i], "_")[2]
                        /\ ent_reg'[i] = LutronOccupancySensor_unique_id(devices[1], g)
                        /\ (\E d \in dev_reg : d.id = Text(ent_reg[i])) =>
                              /\ \E d \in dev_reg' : d.id = Text(ent_reg'[i])
                              /\ ~\E d \in dev_reg' : d.id = Text(ent_reg[i])
               /\ ~StartsWith(ent_reg[i], OccupancyPrefix) =>
                     ent_reg'[i] = ent_reg[i]]_vars

\* the step that is a call of async_unload_entry
UnloadStep == unloads' # unloads

\* C15: async_unload_entry closes the bridge in every case, removes the
\* entry's data from hass.data exactly when the host reports the platforms
\* unloaded, and returns that report; and as long as no unload failed,
\* hass.data holds the entry's data exactly when the entry is set up
C15_UnloadClosesAndPops ==
    /\ [][UnloadStep =>
            LET u == unloads'[Len(unloads')]
            IN  /\ bridge'.closed /\ ~bridge'.connected
                /\ hass_data /\ (~hass_data' <=> u.unload_ok)
                /\ u.returned = u.unload_ok
                /\ lut_ret' = (IF u.unload_ok THEN "True" ELSE "False")]_vars
    /\ []((\A i \in 1..Len(unloads) : unloads[i].unload_ok) =>
            (hass_data <=> lut_pc \in {"forwarding", "loaded"}))

\* an entry was set up, unloaded, and set up again
C15_Witness ==
    /\ Len(unloads) = 1 /\ unloads[1].unload_ok
    /\ setup_calls = 2 /\ lut_pc = "loaded" /\ hass_data /\ ~bridge.closed

\* the identifiers of the registered devices
DeviceIdentifiers(reg) == {d.id : d \in reg}

\* C13: the migration is idempotent: a run with the bridge unique id of the
\* run before it changes no entity unique id and no device identifier
\* (the bridge and button devices the same setup registers are new or
\* found again, with identifiers that are no unique ids of entities)
C13_MigrationIdempotent ==
    [][(MigrationStep /\ migrations # <<>>
                      /\ migrations[Len(migrations)] = entry_unique_id) =>
         /\ ent_reg' = ent_reg
         /\ \A id \in DeviceIdentifiers(dev_reg) : id \in DeviceIdentifiers(dev_reg')
         /\ \A id \in DeviceIdentifiers(dev_reg') :
               id \in DeviceIdentifiers(dev_reg) \/ id.k # "text"]_vars

\* the migration ran twice with the same bridge unique id, on a registry
\* whose occupancy sensor had the old unique id before the first run
C13_Witness ==
    /\ Len(migrations) = 2 /\ migrations[1] = migrations[2]
    /\ migrations[1] # PyNone
    /\ ent_reg[1] = LutronOccupancySensor_unique_id(devices[1], 1)
    /\ Len(ent_reg) = 2
    /\ \E d \in dev_reg : d.id = Text(ent_reg[1])

\* step a comes before step b in the steps of a setup
Before(order, a, b) ==
    \A j \in 1..Len(order) :
        order[j] = b => \E i \in 1..(j - 1) : order[i] = a

\* a platform's async_setup_entry runs
PlatformSetupStep == platforms' # platforms /\ lut_pc = "forwarding"

\* C14: async_setup_entry stores the bridge data in hass.data before it
\* forwards the platforms, and registers the bridge and button devices
\* before it subscribes the button events; so whenever a platform's
\* async_setup_entry runs, hass.data holds the entry's connected bridge
C14_DataStoredBeforePlatforms ==
    /\ [](/\ Before(setup_order, "store", "forward")
          /\ Before(setup_order, "register_bridge", "subscribe")
          /\ Before(setup_order, "register_buttons", "subscribe"))
    /\ [][PlatformSetupStep =>
            hass_data /\ bridge.created /\ bridge.connected /\ ~bridge.closed]_vars
    /\ [](subscribed # {} => \E d \in dev_reg : d.id = devices[1].serial)

\* both platforms were set up for an entry with a button
C14_Witness ==
    /\ lut_pc = "loaded" /\ hass_data
    /\ platforms.button = "ok" /\ platforms.binary_sensor = "ok"
    /\ Len(button_entities) > 0
    /\ setup_order[Len(setup_order)] = "forward"

\* the step that is a button status callback
CallbackStep == callbacks' # callbacks \/ bus' # bus

\* C16: a status callback of a button whose id is in the button dictionary
\* fires exactly one lutron_caseta_button_event, with action "pressed" for
\* BUTTON_STATUS_PRESSED and "released" for any other status; a callback for
\* an id that is not in the dictionary fires no event
C16_OneEventPerCallback ==
    [][CallbackStep =>
         LET c == callbacks'[1]
         IN  IF c.button \in 1..Len(buttons)
             THEN /\ Len(bus') = 1
                  /\ bus'[1].action = (IF c.event_type = BUTTON_STATUS_PRESSED
                                       THEN "pressed" ELSE "released")
             ELSE bus' = <<>>]_vars

\* C17: when the handler runs for a subscribed button, the device it looks
\* up is in the device registry, registered by _async_register_button_devices
\* with the bridge as via_device: the lookup never returns None and the event
\* carries the device's id
C17_EventDeviceRegistered ==
    \A k \in 1..Len(callbacks) :
        callbacks[k].button \in 1..Len(buttons) =>
            /\ callbacks[k].outcome # "AttributeError"
            /\ callbacks[k].outcome = "fired" =>
                  \E d \in dev_reg : /\ d.id = bus[1].device_id
                                     /\ d.via = devices[1].serial

\* "<area> <name>" for a device name: the name with its first underscore
\* turned into a space, or "Unassigned " and the name when it has none
ExpectedDisplayName(n) ==
    IF Contains(n, "_")
    THEN [n EXCEPT ![FirstIndex(n, "_")] = " "]
    ELSE <<"U","n","a","s","s","i","g","n","e","d"," ">> \o n

\* the suggested area for a device name: what stands before its first
\* underscore, unless there is no underscore or that is "Unassigned"
ExpectedSuggestedArea(n) ==
    IF Contains(n, "_") /\ SubSeq(n, 1, FirstIndex(n, "_") - 1) # UNASSIGNED_AREA
    THEN SubSeq(n, 1, FirstIndex(n, "_") - 1)
    ELSE NoArea

\* the parent device info of a keypad entity follows the control station name
ParentInfoFollowsName(entity) ==
    \E d \in 1..Len(devices) :
        /\ devices[d].device_id = entity.device_info.id
        /\ entity.device_info.name =
              ExpectedDisplayName(devices[d].control_station_name)
        /\ entity.device_info.area =
              ExpectedSuggestedArea(devices[d].control_station_name)

\* the devices are those that the first setup registered
FirstRegistrationDone ==
    /\ setup_calls = 1 /\ lut_pc = "forwarding" /\ platforms = PlatformsPending

===========================================================================
